---- MODULE Spec2Model ----
(***************************************************************************)
(* Model of the Iterated Prisoner's Dilemma engine (simulation.js: the     *)
(* seeded random source, payoff matrix, strategies, Game and Tournament)   *)
(* and of the reset performed by app.js before a simulation run.           *)
(*                                                                         *)
(* Numbers.  TLC integers are 32-bit signed, so a 32-bit word of the       *)
(* generator is kept as a pair <<hi, lo>> of 16-bit halves.  The           *)
(* generator's seed is a JavaScript Number that `+=` never wraps, so it is *)
(* kept as [k, hi, lo] with value k*2^32 + hi*2^16 + lo.  A draw           *)
(* u / 4294967296 is kept as the word u; a probability p is kept as the    *)
(* threshold <<ph, pl>> with  u/2^32 < p  <=>  u < ph*2^16 + pl.           *)
(***************************************************************************)
EXTENDS Integers, Sequences, FiniteSets, TLC

VARIABLES
    seed,          \* globalRandom.seed
    drawLog,       \* the calls of globalRandom.random() made by the current match, in order
    cfg,           \* the Tournament's payoffMatrix, numRounds, continuationProb, strategyParams
    results,       \* Tournament.results
    pc,            \* position of the running orchestration call
    call,          \* which orchestration call is running and with which arguments
    locals,        \* the locals of runRoundRobin: i, j, matchResults, payoffMatrix, strategyNames
    nextId,        \* number of strategy objects constructed so far (object identity)
    games,         \* the Game objects the running call constructed, in order
    game,          \* the Game being played: strategy1, strategy2, roundHistory, roundCount
    ret,           \* what the last orchestration call returned or threw
    warnings,      \* number of console.warn calls
    calls,         \* number of orchestration calls started
    extraDraws,    \* number of draws made outside any match
    sinceReset,    \* the seed of the reset that immediately preceded the running call, or None
    ref            \* for each seed, what the first runRoundRobin right after reset(seed) returned

vars == <<seed, drawLog, cfg, results, pc, call, locals, nextId, games, game, ret,
          warnings, calls, extraDraws, sinceReset, ref>>

\* null / undefined.  TLC compares a number only with numbers, so a number that
\* may be null is kept boxed: <<>> or <<x>>.
None == <<>>
Box(x) == <<x>>

-----------------------------------------------------------------------------
(* 16-bit halves and 32-bit words *)

H == 256 * 256

\* a ^ b and a | b on n-bit numbers, bit by bit
RECURSIVE XorN(_, _, _)
XorN(a, b, n) ==
    IF n = 0 THEN 0
    ELSE ((a + b) % 2) + 2 * XorN(a \div 2, b \div 2, n - 1)

RECURSIVE OrN(_, _, _)
OrN(a, b, n) ==
    IF n = 0 THEN 0
    ELSE (IF (a % 2) + (b % 2) > 0 THEN 1 ELSE 0) + 2 * OrN(a \div 2, b \div 2, n - 1)

RECURSIVE Pow2(_)
Pow2(n) == IF n = 0 THEN 1 ELSE 2 * Pow2(n - 1)

\* the same on 4-bit digits, tabulated once
XorTab == [a \in 0..15 |-> [b \in 0..15 |-> XorN(a, b, 4)]]
OrTab == [a \in 0..15 |-> [b \in 0..15 |-> OrN(a, b, 4)]]
Pow2Tab == [n \in 0..16 |-> Pow2(n)]

\* a ^ b and a | b on 16-bit halves, digit by digit
Xor16(a, b) ==
    XorTab[a % 16][b % 16]
    + 16 * XorTab[(a \div 16) % 16][(b \div 16) % 16]
    + 256 * XorTab[(a \div 256) % 16][(b \div 256) % 16]
    + 4096 * XorTab[a \div 4096][b \div 4096]
Or16(a, b) ==
    OrTab[a % 16][b % 16]
    + 16 * OrTab[(a \div 16) % 16][(b \div 16) % 16]
    + 256 * OrTab[(a \div 256) % 16][(b \div 256) % 16]
    + 4096 * OrTab[a \div 4096][b \div 4096]

\* a ^ b on 32-bit words
XorW(a, b) == <<Xor16(a[1], b[1]), Xor16(a[2], b[2])>>

\* a | c for a constant c < 2^16
OrW(a, c) == <<a[1], Or16(a[2], c)>>

\* a >>> n for 0 < n < 16
ShrW(a, n) ==
    <<a[1] \div Pow2Tab[n],
      (a[1] % Pow2Tab[n]) * Pow2Tab[16 - n] + a[2] \div Pow2Tab[n]>>

\* (a + b) mod 2^32
AddW(a, b) == <<(a[1] + b[1] + (a[2] + b[2]) \div H) % H, (a[2] + b[2]) % H>>

\* (x * y) mod 2^16 for 16-bit x, y, without leaving 31 bits
MulLo16(x, y) == ((x % 256) * y + (((x \div 256) * y) % 256) * 256) % H

\* Math.imul(a, b): the low 32 bits of the product.  With al = a[2], bl = b[2]:
\* al * bl = x + 256 * y, where x = (al % 256) * bl and y = (al \div 256) * bl
ImulParts(a, b, y, z) ==
    <<(z \div H + y \div 256 + MulLo16(a[1], b[2]) + MulLo16(a[2], b[1])) % H, z % H>>
ImulHigh(a, b, y) == ImulParts(a, b, y, (a[2] % 256) * b[2] + (y % 256) * 256)
ImulW(a, b) == ImulHigh(a, b, (a[2] \div 256) * b[2])

\* u < t on words; a threshold may have hi = 2^16 (the probability 1.0)
LessW(u, t) == u[1] < t[1] \/ (u[1] = t[1] /\ u[2] < t[2])

-----------------------------------------------------------------------------
(* SeededRandom *)

IncHi == 27947     \* 0x6D2B
IncLo == 31221     \* 0x79F5

\* new SeededRandom(seed) / reset(seed): this.seed = seed
SeedOf(n) == [k |-> 0, hi |-> n \div H, lo |-> n % H]

\* this.seed += 0x6D2B79F5  (a Number addition: no 32-bit wraparound)
SeedCarry(sd, hi) == [k |-> sd.k + hi \div H, hi |-> hi % H, lo |-> (sd.lo + IncLo) % H]
SeedAdvance(sd) == SeedCarry(sd, sd.hi + IncHi + (sd.lo + IncLo) \div H)

\* ToInt32 / ToUint32 of the seed, as the bitwise operators take it
ToWord(sd) == <<sd.hi, sd.lo>>

\* line 16: t = Math.imul(t ^ t >>> 15, t | 1)
Mix1(t) == ImulW(XorW(t, ShrW(t, 15)), OrW(t, 1))
\* line 17: t ^= t + Math.imul(t ^ t >>> 7, t | 61)
Mix2(t) == XorW(t, AddW(t, ImulW(XorW(t, ShrW(t, 7)), OrW(t, 61))))
\* line 18: (t ^ t >>> 14) >>> 0, the word u with random() = u / 4294967296
Mix3(t) == XorW(t, ShrW(t, 14))
Mix(sd) == Mix3(Mix2(Mix1(ToWord(sd))))

\* random(): the value drawn and the seed left behind
Drawn(s2) == [val |-> Mix(s2), seed |-> s2]
random(sd) == Drawn(SeedAdvance(sd))

-----------------------------------------------------------------------------
(* Actions, PayoffMatrix *)

COOPERATE == "C"
DEFECT == "D"

PayoffMatrix(T, R, P, S) == [T |-> T, R |-> R, P |-> P, S |-> S]

\* mutant: temptation and sucker payoffs handed to the wrong sides
getPayoffCrossed(pm, action1, action2) ==
    IF action1 = COOPERATE /\ action2 = COOPERATE THEN <<pm.R, pm.R>>
    ELSE IF action1 = COOPERATE /\ action2 = DEFECT THEN <<pm.T, pm.S>>
    ELSE IF action1 = DEFECT /\ action2 = COOPERATE THEN <<pm.S, pm.T>>
    ELSE <<pm.P, pm.P>>

\* mutant: the pair of a one-sided defection put in the order T > S would give
getPayoffAssumesOrder(pm, action1, action2) ==
    IF action1 = COOPERATE /\ action2 = COOPERATE THEN <<pm.R, pm.R>>
    ELSE IF action1 = COOPERATE /\ action2 = DEFECT
         THEN (IF pm.S <= pm.T THEN <<pm.S, pm.T>> ELSE <<pm.T, pm.S>>)
    ELSE IF action1 = DEFECT /\ action2 = COOPERATE
         THEN (IF pm.S <= pm.T THEN <<pm.T, pm.S>> ELSE <<pm.S, pm.T>>)
    ELSE <<pm.P, pm.P>>

getPayoff(pm, action1, action2) ==
    IF action1 = COOPERATE /\ action2 = COOPERATE THEN <<pm.R, pm.R>>
    ELSE IF action1 = COOPERATE /\ action2 = DEFECT THEN <<pm.S, pm.T>>
    ELSE IF action1 = DEFECT /\ action2 = COOPERATE THEN <<pm.T, pm.S>>
    ELSE <<pm.P, pm.P>>

-----------------------------------------------------------------------------
(* Strategies.  A strategy object is a record; `id` is its identity, `class` *)
(* the class that constructed it.                                           *)

Strategy(id, class, name) ==
    [id |-> id, class |-> class, name |-> name,
     history |-> <<>>, opponentHistory |-> <<>>, score |-> 0]

AlwaysCooperate(id) == Strategy(id, "AlwaysCooperate", "Always Cooperate (ALL-C)")
AlwaysDefect(id) == Strategy(id, "AlwaysDefect", "Always Defect (ALL-D)")
TitForTat(id) == Strategy(id, "TitForTat", "Tit-for-Tat (TFT)")
GrimTrigger(id) ==
    [id |-> id, class |-> "GrimTrigger", name |-> "Grim Trigger",
     history |-> <<>>, opponentHistory |-> <<>>, score |-> 0, triggered |-> FALSE]
GenerousTitForTat(id, forgiveness) ==
    [id |-> id, class |-> "GenerousTitForTat", name |-> "Generous TFT",
     history |-> <<>>, opponentHistory |-> <<>>, score |-> 0, forgiveness |-> forgiveness]

Last(q) == q[Len(q)]

\* makeMove(): the move, the strategy afterwards, the seed afterwards and the
\* values it drew.  `by` names the caller's slot for the draw log.
\* mutant: a draw made and thrown away by a makeMove that needs none
NoDrawWastesOne(s, sd, move) ==
    [move |-> move, strat |-> s, seed |-> random(sd).seed, drew |-> <<random(sd).val>>]

NoDraw(s, sd, move) == [move |-> move, strat |-> s, seed |-> sd, drew |-> <<>>]

\* mutant: Tit-for-Tat opening with DEFECT
makeMoveTFTOpensDefecting(s, sd) ==
    IF Len(s.opponentHistory) = 0 THEN NoDraw(s, sd, DEFECT)
    ELSE NoDraw(s, sd, Last(s.opponentHistory))

makeMoveTFT(s, sd) ==
    IF Len(s.opponentHistory) = 0 THEN NoDraw(s, sd, COOPERATE)
    ELSE NoDraw(s, sd, Last(s.opponentHistory))

\* mutant: Grim Trigger without its latch, answering the last move only
makeMoveGRIMForgets(s, sd) ==
    IF Len(s.opponentHistory) > 0 /\ Last(s.opponentHistory) = DEFECT
    THEN NoDraw([s EXCEPT !.triggered = TRUE], sd, DEFECT)
    ELSE NoDraw(s, sd, COOPERATE)

makeMoveGRIM(s, sd) ==
    IF s.triggered THEN NoDraw(s, sd, DEFECT)
    ELSE IF Len(s.opponentHistory) > 0 /\ Last(s.opponentHistory) = DEFECT
         THEN NoDraw([s EXCEPT !.triggered = TRUE], sd, DEFECT)
    ELSE NoDraw(s, sd, COOPERATE)

\* mutant: forgiving with probability 1 - forgiveness
ForgiveComplement(s, r) ==
    [move |-> IF LessW(r.val, <<H - s.forgiveness[1] - (IF s.forgiveness[2] > 0 THEN 1 ELSE 0),
                                (H - s.forgiveness[2]) % H>>)
              THEN COOPERATE ELSE DEFECT,
     strat |-> s, seed |-> r.seed, drew |-> <<r.val>>]

\* mutant: forgiving when the draw is not below forgiveness
ForgiveWhenAbove(s, r) ==
    [move |-> IF LessW(r.val, s.forgiveness) THEN DEFECT ELSE COOPERATE,
     strat |-> s, seed |-> r.seed, drew |-> <<r.val>>]

\* lines 180-184, r being what globalRandom.random() gave
Forgive(s, r) ==
    [move |-> IF LessW(r.val, s.forgiveness) THEN COOPERATE ELSE DEFECT,
     strat |-> s, seed |-> r.seed, drew |-> <<r.val>>]

\* mutant: no draw made when forgiveness is 0
makeMoveGTFTSavesDraw(s, sd) ==
    IF Len(s.opponentHistory) = 0 THEN NoDraw(s, sd, COOPERATE)
    ELSE IF Last(s.opponentHistory) = COOPERATE THEN NoDraw(s, sd, COOPERATE)
    ELSE IF s.forgiveness = <<0, 0>> THEN NoDraw(s, sd, DEFECT)
    ELSE Forgive(s, random(sd))

makeMoveGTFT(s, sd) ==
    IF Len(s.opponentHistory) = 0 THEN NoDraw(s, sd, COOPERATE)
    ELSE IF Last(s.opponentHistory) = COOPERATE THEN NoDraw(s, sd, COOPERATE)
    ELSE Forgive(s, random(sd))

makeMove(s, sd) ==
    CASE s.class = "AlwaysCooperate" -> NoDraw(s, sd, COOPERATE)
      [] s.class = "AlwaysDefect" -> NoDraw(s, sd, DEFECT)
      [] s.class = "TitForTat" -> makeMoveTFT(s, sd)
      [] s.class = "GrimTrigger" -> makeMoveGRIM(s, sd)
      [] s.class = "GenerousTitForTat" -> makeMoveGTFT(s, sd)

recordMove(s, myMove, opponentMove) ==
    [s EXCEPT !.history = Append(@, myMove),
              !.opponentHistory = Append(@, opponentMove)]

\* mutant: the score set to the payoff instead of raised by it
updateScoreOverwrites(s, payoff) == [s EXCEPT !.score = payoff]

updateScore(s, payoff) == [s EXCEPT !.score = @ + payoff]

\* mutant: a reset that leaves the opponent history in place
resetKeepsOpponentHistory(s) ==
    IF s.class = "GrimTrigger"
    THEN [s EXCEPT !.history = <<>>, !.score = 0, !.triggered = FALSE]
    ELSE [s EXCEPT !.history = <<>>, !.score = 0]

\* Strategy.reset(), and GrimTrigger's override
reset(s) ==
    IF s.class = "GrimTrigger"
    THEN [s EXCEPT !.history = <<>>, !.opponentHistory = <<>>, !.score = 0,
                   !.triggered = FALSE]
    ELSE [s EXCEPT !.history = <<>>, !.opponentHistory = <<>>, !.score = 0]

\* a quotient n/d of two Numbers, kept as the reduced fraction <<n, d>>
RECURSIVE Gcd(_, _)
Gcd(a, b) == IF b = 0 THEN a ELSE Gcd(b, a % b)
Abs(x) == IF x < 0 THEN -x ELSE x
Reduce(n, d, g) == <<n \div g, d \div g>>
Frac(n, d) == IF n = 0 THEN <<0, 1>> ELSE Reduce(n, d, Gcd(Abs(n), d))
FracAdd(x, y) == Frac(x[1] * y[2] + y[1] * x[2], x[2] * y[2])

\* history.filter(move => move === COOPERATE).length
CountC(h) == Cardinality({k \in DOMAIN h : h[k] = COOPERATE})

getCooperationRate(s) ==
    IF Len(s.history) = 0 THEN <<0, 1>>
    ELSE Frac(CountC(s.history), Len(s.history))

-----------------------------------------------------------------------------
(* StrategyFactory *)

\* 0.1 as a threshold: u/2^32 < 0.1  <=>  u < 429496730 = 0x1999999A
DefaultForgiveness == <<6553, 39322>>

\* the default branch: throw new Error(`Unknown strategy: ${strategyCode}`)
UnknownStrategy(strategyCode) == [error |-> "Unknown strategy", code |-> strategyCode]

\* mutant: an unknown code falling back to Tit-for-Tat instead of throwing
createStrategyFallback(strategyCode, params, id) ==
    CASE strategyCode = "ALLC" -> AlwaysCooperate(id)
      [] strategyCode = "ALLD" -> AlwaysDefect(id)
      [] strategyCode = "GRIM" -> GrimTrigger(id)
      [] strategyCode = "GTFT" ->
            GenerousTitForTat(id,
                IF "forgiveness" \in DOMAIN params
                THEN params.forgiveness ELSE DefaultForgiveness)
      [] OTHER -> TitForTat(id)

\* mutant: a bundle with a key other than forgiveness rejected, and a bundle
\* without forgiveness never forgiving
createStrategyStrict(strategyCode, params, id) ==
    CASE DOMAIN params \ {"forgiveness"} # {} ->
            [error |-> "Unknown parameter", code |-> strategyCode]
      [] strategyCode = "ALLC" -> AlwaysCooperate(id)
      [] strategyCode = "ALLD" -> AlwaysDefect(id)
      [] strategyCode = "TFT" -> TitForTat(id)
      [] strategyCode = "GRIM" -> GrimTrigger(id)
      [] strategyCode = "GTFT" ->
            GenerousTitForTat(id,
                IF "forgiveness" \in DOMAIN params
                THEN params.forgiveness ELSE <<0, 0>>)
      [] OTHER -> UnknownStrategy(strategyCode)

\* createStrategy(strategyCode, params): the new object (its identity is id),
\* or the Error thrown
createStrategy(strategyCode, params, id) ==
    CASE strategyCode = "ALLC" -> AlwaysCooperate(id)
      [] strategyCode = "ALLD" -> AlwaysDefect(id)
      [] strategyCode = "TFT" -> TitForTat(id)
      [] strategyCode = "GRIM" -> GrimTrigger(id)
      [] strategyCode = "GTFT" ->
            GenerousTitForTat(id,
                IF "forgiveness" \in DOMAIN params
                THEN params.forgiveness ELSE DefaultForgiveness)
      [] OTHER -> UnknownStrategy(strategyCode)

Throws(x) == "error" \in DOMAIN x

getAllStrategyCodes == <<"ALLC", "ALLD", "TFT", "GRIM", "GTFT">>

-----------------------------------------------------------------------------
(* Game *)

maxRounds == 10000

\* new Game(strategy1, strategy2, payoffMatrix, numRounds, continuationProb)
Game(strategy1, strategy2, payoffMatrix, numRounds, continuationProb) ==
    [strategy1 |-> strategy1, strategy2 |-> strategy2, payoffMatrix |-> payoffMatrix,
     numRounds |-> numRounds, continuationProb |-> continuationProb,
     roundHistory |-> <<>>, roundCount |-> 0, i |-> 0]

Tag(drew, by) == [k \in 1..Len(drew) |-> [by |-> by, val |-> drew[k]]]

\* playRound(): the game afterwards, the seed afterwards and the draws made
\* lines 239-247: the round pushed on roundHistory, s1 and s2 being the
\* strategies after recordMove and updateScore
Pushed(g, m1, m2, pay, s1, s2) ==
    [game |-> [g EXCEPT !.strategy1 = s1, !.strategy2 = s2,
                        !.roundHistory = Append(@,
                            [round |-> Len(g.roundHistory) + 1,
                             move1 |-> m1.move, move2 |-> m2.move,
                             payoff1 |-> pay[1], payoff2 |-> pay[2],
                             cumScore1 |-> s1.score, cumScore2 |-> s2.score])],
     seed |-> m2.seed,
     drew |-> Tag(m1.drew, "strategy1") \o Tag(m2.drew, "strategy2")]

\* lines 233-236, pay being what getPayoff gave
Recorded(g, m1, m2, pay) ==
    Pushed(g, m1, m2, pay,
           updateScore(recordMove(m1.strat, m1.move, m2.move), pay[1]),
           updateScore(recordMove(m2.strat, m2.move, m1.move), pay[2]))

\* lines 227-230, m1 being what strategy1.makeMove() gave
Moved(g, m1, m2) == Recorded(g, m1, m2, getPayoff(g.payoffMatrix, m1.move, m2.move))
\* mutant: strategy2 deciding with strategy1's move of this round already in
\* its opponent history
Peeked(g, m2) ==
    [m2 EXCEPT !.strat = [@ EXCEPT !.opponentHistory = g.strategy2.opponentHistory]]
SecondMovePeeks(g, m1) ==
    Moved(g, m1,
          Peeked(g, makeMove([g.strategy2 EXCEPT !.opponentHistory = Append(@, m1.move)],
                             m1.seed)))

SecondMove(g, m1) == Moved(g, m1, makeMove(g.strategy2, m1.seed))

playRound(g, sd) == SecondMove(g, makeMove(g.strategy1, sd))

\* the object play() returns
MatchResult(g) ==
    [strategy1Name |-> g.strategy1.name, strategy2Name |-> g.strategy2.name,
     finalScore1 |-> g.strategy1.score, finalScore2 |-> g.strategy2.score,
     cooperationRate1 |-> getCooperationRate(g.strategy1),
     cooperationRate2 |-> getCooperationRate(g.strategy2),
     roundHistory |-> g.roundHistory]

\* The run of play() is a machine m = [pc, game, seed, drawLog, warnings, match]:
\* the position in play(), the Game, globalRandom.seed, the draw log, the
\* number of warnings and the number of the match in the running call.
Machine ==
    [pc |-> pc, game |-> game, seed |-> seed, drawLog |-> drawLog,
     warnings |-> warnings, match |-> Len(games)]

InMatch(drew, match) == [k \in 1..Len(drew) |-> [match |-> match] @@ drew[k]]

ContinueDraw(d, match) == <<[match |-> match, by |-> "continue", val |-> d.val]>>

\* play(), lines 255-264: reset both strategies, clear the log, choose the mode
DoReset(m) ==
    [m EXCEPT !.game = [@ EXCEPT !.strategy1 = reset(@), !.strategy2 = reset(@),
                                 !.roundHistory = <<>>, !.roundCount = 0, !.i = 0],
              !.pc = IF m.game.continuationProb # None
                     THEN "play_first" ELSE "play_fixed"]

\* the machine after playRound() gave r and roundCount++, cont being the
\* continuation draw made before it, if any
Counted(m, r, cont) ==
    [m EXCEPT !.game = [r.game EXCEPT !.roundCount = @ + 1],
              !.seed = r.seed,
              !.drawLog = @ \o cont \o InMatch(r.drew, m.match),
              !.pc = "play_loop"]

\* the machine after playRound() gave r and i++
Stepped(m, r) ==
    [m EXCEPT !.game = [r.game EXCEPT !.i = @ + 1],
              !.seed = r.seed,
              !.drawLog = @ \o InMatch(r.drew, m.match)]

\* mutant: a continuation draw made before the first round as well
DoFirstRoundAfterDraw(m) ==
    Counted(m, playRound(m.game, random(m.seed).seed),
            ContinueDraw(random(m.seed), m.match))

\* play(), lines 266-268: the round that is always played
DoFirstRound(m) == Counted(m, playRound(m.game, m.seed), <<>>)

\* mutant: the loop also stopping once numRounds rounds are played
ContinueUpToNumRounds(m, d) ==
    IF /\ LessW(d.val, m.game.continuationProb)
       /\ m.game.roundCount < maxRounds
       /\ m.game.roundCount < m.game.numRounds
    THEN Counted(m, playRound(m.game, d.seed), ContinueDraw(d, m.match))
    ELSE [m EXCEPT !.seed = d.seed,
                   !.drawLog = @ \o ContinueDraw(d, m.match),
                   !.pc = "play_return"]

\* lines 271-274, d being what globalRandom.random() gave in the while
\* condition: the body runs, or the loop is left
Continue(m, d) ==
    IF LessW(d.val, m.game.continuationProb) /\ m.game.roundCount < maxRounds
    THEN Counted(m, playRound(m.game, d.seed), ContinueDraw(d, m.match))
    ELSE [m EXCEPT !.seed = d.seed,
                   !.drawLog = @ \o ContinueDraw(d, m.match),
                   !.pc = "play_return"]

\* play(), lines 271-274: one evaluation of the while condition and, when it
\* holds, one execution of the body
DoLoop(m) == Continue(m, random(m.seed))

\* mutant: the fixed loop testing i <= numRounds
DoFixedInclusive(m) ==
    IF m.game.i <= m.game.numRounds
    THEN Stepped(m, playRound(m.game, m.seed))
    ELSE [m EXCEPT !.pc = "play_return"]

\* play(), lines 281-283: one test of i < numRounds and, when it holds, one round
DoFixed(m) ==
    IF m.game.i < m.game.numRounds
    THEN Stepped(m, playRound(m.game, m.seed))
    ELSE [m EXCEPT !.pc = "play_return"]

\* mutant: the warning made whatever the number of rounds
DoReturnWarns(m) == [m EXCEPT !.warnings = @ + 1, !.pc = "played"]

\* play(), lines 276-278 and 286-294: the ceiling warning, and the return
DoReturn(m) ==
    [m EXCEPT !.warnings = IF m.game.continuationProb # None
                              /\ m.game.roundCount >= maxRounds
                           THEN @ + 1 ELSE @,
              !.pc = "played"]

\* one step of play()
PlayStep(m) ==
    CASE m.pc = "play_reset" -> DoReset(m)
      [] m.pc = "play_first" -> DoFirstRound(m)
      [] m.pc = "play_loop" -> DoLoop(m)
      [] m.pc = "play_fixed" -> DoFixed(m)
      [] m.pc = "play_return" -> DoReturn(m)

\* the machine becomes the state; play()'s result is noted in the games log
Apply(m) ==
    /\ pc' = m.pc
    /\ game' = m.game
    /\ seed' = m.seed
    /\ drawLog' = m.drawLog
    /\ warnings' = m.warnings
    /\ games' = IF m.pc = "played"
                THEN [games EXCEPT ![Len(games)].result = MatchResult(m.game)]
                ELSE games
    /\ UNCHANGED <<cfg, results, call, locals, nextId, ret, calls, extraDraws,
                   sinceReset, ref>>

PlayReset == pc = "play_reset" /\ Apply(DoReset(Machine))
PlayFirstRound == pc = "play_first" /\ Apply(DoFirstRound(Machine))
PlayLoop == pc = "play_loop" /\ Apply(DoLoop(Machine))
PlayFixed == pc = "play_fixed" /\ Apply(DoFixed(Machine))
PlayReturn == pc = "play_return" /\ Apply(DoReturn(Machine))

\* at most n steps of play(), stopping when it has returned
RECURSIVE RunSteps(_, _)
RunSteps(m, n) ==
    IF n = 0 \/ m.pc = "played" THEN m
    ELSE IF n = 1 THEN PlayStep(m)
    ELSE RunSteps(RunSteps(m, n \div 2), n - n \div 2)

\* play() from its first line to its return needs at most maxRounds + 3 steps
\* (indefinite mode): the reset, the first round, maxRounds - 1 further rounds,
\* the draw that meets the ceiling, the return
StepsOfPlay == maxRounds + 3

\* play() as one step: lines 255-294
PlayWhole ==
    /\ pc = "play_reset"
    /\ \E m \in {RunSteps(Machine, StepsOfPlay)} : Apply(m)

-----------------------------------------------------------------------------
(* Tournament *)

\* bounds of the model
MaxCalls == 2
MaxExtraDraws == 1
MaxNumRounds == 3

Seeds == {42, 123}

\* new Tournament(payoffMatrix, numRounds, strategyParams, continuationProb).
\* numRounds is a number here: app.js passes null in indefinite mode, where it is
\* never read, and a null would count as 0 in `i < this.numRounds`.
Tournament(payoffMatrix, numRounds, strategyParams, continuationProb) ==
    [payoffMatrix |-> payoffMatrix, numRounds |-> numRounds,
     continuationProb |-> continuationProb, strategyParams |-> strategyParams]

\* what the games log keeps of a new Game: who plays, and later what play() returned
GameEntry(g, code1, code2) ==
    [id1 |-> g.strategy1.id, code1 |-> code1, id2 |-> g.strategy2.id, code2 |-> code2,
     result |-> None]

NewCall(op, args) == [op |-> op, args |-> args, afterReset |-> sinceReset]

\* runPairwise(strategyCode1, strategyCode2), lines 310-313
RunPairwise(strategyCode1, strategyCode2) ==
    /\ pc = "idle"
    /\ calls' = calls + 1
    /\ call' = NewCall("runPairwise", <<strategyCode1, strategyCode2>>)
    /\ sinceReset' = None
    /\ drawLog' = <<>>
    /\ LET strategy1 == createStrategy(strategyCode1, cfg.strategyParams, nextId + 1)
           strategy2 == createStrategy(strategyCode2, cfg.strategyParams, nextId + 2)
           g == Game(strategy1, strategy2, cfg.payoffMatrix, cfg.numRounds,
                     cfg.continuationProb)
       IN  IF Throws(strategy1)
           THEN /\ ret' = strategy1
                /\ games' = <<>>
                /\ UNCHANGED <<pc, game, nextId>>
           ELSE IF Throws(strategy2)
           THEN /\ ret' = strategy2
                /\ nextId' = nextId + 1
                /\ games' = <<>>
                /\ UNCHANGED <<pc, game>>
           ELSE /\ ret' = None
                /\ nextId' = nextId + 2
                /\ game' = g
                /\ games' = <<GameEntry(g, strategyCode1, strategyCode2)>>
                /\ pc' = "play_reset"
    /\ UNCHANGED <<seed, cfg, results, locals, warnings, extraDraws, ref>>

\* runPairwise, lines 314-317, once play() has returned
PairwiseEnd ==
    /\ pc = "played"
    /\ call.op = "runPairwise"
    /\ results' = <<MatchResult(game)>>
    /\ ret' = MatchResult(game)
    /\ pc' = "idle"
    /\ game' = None
    /\ UNCHANGED <<seed, drawLog, cfg, call, locals, nextId, games, warnings, calls,
                   extraDraws, sinceReset, ref>>

NumCodes == Len(getAllStrategyCodes)

\* strategyCodes.map(code => createStrategy(code, params).name)
StrategyNames(params, id0) ==
    [k \in 1..NumCodes |-> createStrategy(getAllStrategyCodes[k], params, id0 + k).name]

Range(q) == {q[k] : k \in DOMAIN q}

\* mutant: the inner loop starting at j = i, so that self-play comes first
NextPairFromSelf(i, j) ==
    IF j + 1 < NumCodes THEN <<i, j + 1>>
    ELSE IF i + 1 < NumCodes THEN <<i + 1, i + 1>>
    ELSE <<NumCodes, NumCodes>>

\* the loop control of lines 339-340 after the body ran for (i, j): the next
\* (i, j) for which the body runs, or i = length when the loops are over
NextPair(i, j) ==
    IF j + 1 < NumCodes THEN <<i, j + 1>>
    ELSE IF i + 2 < NumCodes THEN <<i + 1, i + 2>>
    ELSE <<NumCodes, NumCodes>>

\* runRoundRobin, lines 322-336
RunRoundRobin ==
    /\ pc = "idle"
    /\ calls' = calls + 1
    /\ call' = NewCall("runRoundRobin", <<>>)
    /\ sinceReset' = None
    /\ drawLog' = <<>>
    /\ games' = <<>>
    /\ ret' = None
    /\ results' = <<>>
    /\ LET strategyNames == StrategyNames(cfg.strategyParams, nextId)
       IN  locals' = [phase |-> "pairs", i |-> 0, j |-> 1, matchResults |-> <<>>,
                      strategyNames |-> strategyNames,
                      payoffMatrix |-> [name1 \in Range(strategyNames) |->
                                           [name2 \in Range(strategyNames) |-> None]]]
    /\ nextId' = nextId + NumCodes
    /\ pc' = "rr_pair"
    /\ UNCHANGED <<seed, cfg, game, warnings, extraDraws, ref>>

\* runRoundRobin, lines 341-344: the strategies and the Game of the pair (i, j)
RRPairCreate ==
    /\ pc = "rr_pair"
    /\ LET code1 == getAllStrategyCodes[locals.i + 1]
           code2 == getAllStrategyCodes[locals.j + 1]
           strategy1 == createStrategy(code1, cfg.strategyParams, nextId + 1)
           strategy2 == createStrategy(code2, cfg.strategyParams, nextId + 2)
           g == Game(strategy1, strategy2, cfg.payoffMatrix, cfg.numRounds,
                     cfg.continuationProb)
       IN  /\ game' = g
           /\ games' = Append(games, GameEntry(g, code1, code2))
    /\ nextId' = nextId + 2
    /\ pc' = "play_reset"
    /\ UNCHANGED <<seed, drawLog, cfg, results, call, locals, ret, warnings, calls,
                   extraDraws, sinceReset, ref>>

\* lines 350-351: both directions of a match stored in the score mapping
StoreFirst(payoffMatrix, result) ==
    [payoffMatrix EXCEPT
        ![result.strategy1Name][result.strategy2Name] = Box(result.finalScore1)]
\* mutant: the second direction stored with the first strategy's score
StorePairSameScore(payoffMatrix, result) ==
    [StoreFirst(payoffMatrix, result) EXCEPT
        ![result.strategy2Name][result.strategy1Name] = Box(result.finalScore1)]

StorePair(payoffMatrix, result) ==
    [StoreFirst(payoffMatrix, result) EXCEPT
        ![result.strategy2Name][result.strategy1Name] = Box(result.finalScore2)]

\* line 364: the diagonal entry of a self-play match
StoreDiagonal(payoffMatrix, result) ==
    [payoffMatrix EXCEPT
        ![result.strategy1Name][result.strategy1Name] = Box(result.finalScore1)]

\* runRoundRobin, lines 345-351 and the loop control of lines 339-340
RRPairEnd ==
    /\ pc = "played"
    /\ call.op = "runRoundRobin"
    /\ locals.phase = "pairs"
    /\ LET result == MatchResult(game)
           nxt == NextPair(locals.i, locals.j)
       IN  /\ locals' = [locals EXCEPT
                           !.matchResults = Append(@, result),
                           !.payoffMatrix = StorePair(@, result),
                           !.phase = IF nxt[1] < NumCodes THEN "pairs" ELSE "self",
                           !.i = IF nxt[1] < NumCodes THEN nxt[1] ELSE 0,
                           !.j = nxt[2]]
           /\ pc' = IF nxt[1] < NumCodes THEN "rr_pair" ELSE "rr_self"
    /\ game' = None
    /\ UNCHANGED <<seed, drawLog, cfg, results, call, nextId, games, ret, warnings,
                   calls, extraDraws, sinceReset, ref>>

\* runRoundRobin, lines 357-360: two instances of strategyCodes[i] and their Game
RRSelfCreate ==
    /\ pc = "rr_self"
    /\ LET code == getAllStrategyCodes[locals.i + 1]
           strategy1 == createStrategy(code, cfg.strategyParams, nextId + 1)
           strategy2 == createStrategy(code, cfg.strategyParams, nextId + 2)
           g == Game(strategy1, strategy2, cfg.payoffMatrix, cfg.numRounds,
                     cfg.continuationProb)
       IN  /\ game' = g
           /\ games' = Append(games, GameEntry(g, code, code))
    /\ nextId' = nextId + 2
    /\ pc' = "play_reset"
    /\ UNCHANGED <<seed, drawLog, cfg, results, call, locals, ret, warnings, calls,
                   extraDraws, sinceReset, ref>>

\* mutant: the self-play result pushed on matchResults as well
RRSelfEndPushes ==
    /\ pc = "played"
    /\ call.op = "runRoundRobin"
    /\ locals.phase = "self"
    /\ locals' = [locals EXCEPT
                     !.matchResults = Append(@, MatchResult(game)),
                     !.payoffMatrix = StoreDiagonal(@, MatchResult(game)),
                     !.i = @ + 1]
    /\ pc' = IF locals.i + 1 < NumCodes THEN "rr_self" ELSE "rr_agg"
    /\ game' = None
    /\ UNCHANGED <<seed, drawLog, cfg, results, call, nextId, games, ret, warnings,
                   calls, extraDraws, sinceReset, ref>>

\* runRoundRobin, lines 361-364 and the loop control of line 356
RRSelfEnd ==
    /\ pc = "played"
    /\ call.op = "runRoundRobin"
    /\ locals.phase = "self"
    /\ locals' = [locals EXCEPT
                     !.payoffMatrix = StoreDiagonal(@, MatchResult(game)),
                     !.i = @ + 1]
    /\ pc' = IF locals.i + 1 < NumCodes THEN "rr_self" ELSE "rr_agg"
    /\ game' = None
    /\ UNCHANGED <<seed, drawLog, cfg, results, call, nextId, games, ret, warnings,
                   calls, extraDraws, sinceReset, ref>>

\* a / b for Numbers
Div(a, b) == IF b = 0 THEN "NaN" ELSE Frac(a[1], a[2] * b)

\* lines 368-377: the empty aggregate
EmptyAggregate(params, id0) ==
    [name \in Range(StrategyNames(params, id0)) |->
        [totalScore |-> 0, gamesPlayed |-> 0, cooperationRate |-> <<0, 1>>,
         cooperationCount |-> <<0, 1>>]]

\* mutant: the second strategy's match is not counted
AddResultFirstOnly(aggregated, result) ==
    LET a1 == [aggregated EXCEPT
                 ![result.strategy1Name].totalScore = @ + result.finalScore1,
                 ![result.strategy1Name].gamesPlayed = @ + 1,
                 ![result.strategy1Name].cooperationCount =
                     FracAdd(@, result.cooperationRate1)]
    IN  [a1 EXCEPT
           ![result.strategy2Name].totalScore = @ + result.finalScore2,
           ![result.strategy2Name].cooperationCount =
               FracAdd(@, result.cooperationRate2)]

\* mutant: the second strategy is credited with the first strategy's score
AddResultWrongRole(aggregated, result) ==
    LET a1 == [aggregated EXCEPT
                 ![result.strategy1Name].totalScore = @ + result.finalScore1,
                 ![result.strategy1Name].gamesPlayed = @ + 1,
                 ![result.strategy1Name].cooperationCount =
                     FracAdd(@, result.cooperationRate1)]
    IN  [a1 EXCEPT
           ![result.strategy2Name].totalScore = @ + result.finalScore1,
           ![result.strategy2Name].gamesPlayed = @ + 1,
           ![result.strategy2Name].cooperationCount =
               FracAdd(@, result.cooperationRate2)]

\* lines 380-388: one match result added to the aggregate
AddResult(aggregated, result) ==
    LET a1 == [aggregated EXCEPT
                 ![result.strategy1Name].totalScore = @ + result.finalScore1,
                 ![result.strategy1Name].gamesPlayed = @ + 1,
                 ![result.strategy1Name].cooperationCount =
                     FracAdd(@, result.cooperationRate1)]
    IN  [a1 EXCEPT
           ![result.strategy2Name].totalScore = @ + result.finalScore2,
           ![result.strategy2Name].gamesPlayed = @ + 1,
           ![result.strategy2Name].cooperationCount =
               FracAdd(@, result.cooperationRate2)]

\* lines 379-389: matchResults.forEach
RECURSIVE AddResults(_, _, _)
AddResults(aggregated, matchResults, k) ==
    IF k > Len(matchResults) THEN aggregated
    ELSE AddResults(AddResult(aggregated, matchResults[k]), matchResults, k + 1)

\* mutant: the averages taken over the number of strategies
WithAveragesOverCodes(aggregated) ==
    [name \in DOMAIN aggregated |->
        [totalScore |-> aggregated[name].totalScore,
         gamesPlayed |-> aggregated[name].gamesPlayed,
         cooperationCount |-> aggregated[name].cooperationCount,
         averageScore |-> Div(<<aggregated[name].totalScore, 1>>, NumCodes),
         cooperationRate |-> Div(aggregated[name].cooperationCount, NumCodes)]]

\* lines 392-396: the averages
WithAverages(aggregated) ==
    [name \in DOMAIN aggregated |->
        [totalScore |-> aggregated[name].totalScore,
         gamesPlayed |-> aggregated[name].gamesPlayed,
         cooperationCount |-> aggregated[name].cooperationCount,
         averageScore |-> Div(<<aggregated[name].totalScore, 1>>,
                              aggregated[name].gamesPlayed),
         cooperationRate |-> Div(aggregated[name].cooperationCount,
                                 aggregated[name].gamesPlayed)]]

\* runRoundRobin, lines 367-404
RRAggregate ==
    /\ pc = "rr_agg"
    /\ LET aggregated == WithAverages(AddResults(
                             EmptyAggregate(cfg.strategyParams, nextId),
                             locals.matchResults, 1))
           out == [matchResults |-> locals.matchResults,
                   aggregated |-> aggregated,
                   payoffMatrix |-> locals.payoffMatrix,
                   strategyNames |-> locals.strategyNames]
       IN  /\ ret' = out
           /\ ref' = IF call.afterReset # None /\ ref[call.afterReset[1]] = None
                     THEN [ref EXCEPT ![call.afterReset[1]] = [out |-> out, run |-> calls]]
                     ELSE ref
    /\ results' = locals.matchResults
    /\ nextId' = nextId + NumCodes
    /\ locals' = None
    /\ pc' = "idle"
    /\ UNCHANGED <<seed, drawLog, cfg, call, games, game, warnings, calls,
                   extraDraws, sinceReset>>

-----------------------------------------------------------------------------
(* The random source between calls *)

\* mutant: reset() that leaves the stream where it is
ResetKeepsSeed(s) ==
    /\ pc = "idle"
    /\ calls < MaxCalls
    /\ sinceReset' = Box(s)
    /\ UNCHANGED <<seed, drawLog, cfg, results, pc, call, locals, nextId, games, game,
                   ret, warnings, calls, extraDraws, ref>>

\* app.js line 87: globalRandom.reset(seed)
Reset(s) ==
    /\ pc = "idle"
    /\ calls < MaxCalls
    /\ seed' = SeedOf(s)
    /\ sinceReset' = Box(s)
    /\ UNCHANGED <<drawLog, cfg, results, pc, call, locals, nextId, games, game, ret,
                   warnings, calls, extraDraws, ref>>

\* a call of globalRandom.random() outside any match
ExtraDraw ==
    /\ pc = "idle"
    /\ calls < MaxCalls
    /\ extraDraws < MaxExtraDraws
    /\ seed' = random(seed).seed
    /\ extraDraws' = extraDraws + 1
    /\ sinceReset' = None
    /\ UNCHANGED <<drawLog, cfg, results, pc, call, locals, nextId, games, game, ret,
                   warnings, calls, ref>>

-----------------------------------------------------------------------------
(* Configurations and specifications *)

Prob(n) == <<n, 0>>          \* the probability n / 65536
PHalf == Prob(32768)
PQuarter == Prob(16384)
PThreeQuarters == Prob(49152)
PZero == Prob(0)
POne == Prob(65536)

StandardPayoff == PayoffMatrix(5, 3, 1, 0)
OddPayoff == PayoffMatrix(1, 4, -2, 6)

NoParams == <<>>
ForgiveHalf == [forgiveness |-> PHalf]
ForgiveHalfNoise == [forgiveness |-> PHalf, noise |-> PQuarter]
NoiseOnly == [noise |-> PQuarter]

\* the state after the scripts loaded: globalRandom = new SeededRandom(42), and a
\* Tournament constructed with one of the configurations
InitWith(configs) ==
    /\ cfg \in configs
    /\ seed = SeedOf(42)
    /\ drawLog = <<>>
    /\ results = <<>>
    /\ pc = "idle"
    /\ call = None
    /\ locals = None
    /\ nextId = 0
    /\ games = <<>>
    /\ game = None
    /\ ret = None
    /\ warnings = 0
    /\ calls = 0
    /\ extraDraws = 0
    /\ sinceReset = None
    /\ ref = [s \in Seeds |-> None]

Play == PlayReset \/ PlayFirstRound \/ PlayLoop \/ PlayFixed \/ PlayReturn

\* Round-robin runs, with resets and stray draws between them
RRConfigs ==
    {Tournament(pm, d[1], sp, d[2]) :
        pm \in {StandardPayoff, OddPayoff},
        d \in {<<MaxNumRounds, None>>, <<0, PHalf>>},
        sp \in {NoParams, ForgiveHalfNoise}}

Init == InitWith(RRConfigs)

Next ==
    \/ \E s \in Seeds : Reset(s)
    \/ ExtraDraw
    \/ (calls < MaxCalls /\ RunRoundRobin)
    \/ RRPairCreate
    \/ RRPairEnd
    \/ RRSelfCreate
    \/ RRSelfEnd
    \/ RRAggregate
    \/ Play

Spec == Init /\ [][Next]_vars

-----------------------------------------------------------------------------
(* Round-robin claims, checked under Spec *)

RRDone == pc = "idle" /\ calls > 0 /\ call.op = "runRoundRobin"

\* the 15 matches of a round-robin run, in the order the claim gives
ExpectedOrder ==
    << <<"ALLC", "ALLD">>, <<"ALLC", "TFT">>, <<"ALLC", "GRIM">>, <<"ALLC", "GTFT">>,
       <<"ALLD", "TFT">>, <<"ALLD", "GRIM">>, <<"ALLD", "GTFT">>,
       <<"TFT", "GRIM">>, <<"TFT", "GTFT">>,
       <<"GRIM", "GTFT">>,
       <<"ALLC", "ALLC">>, <<"ALLD", "ALLD">>, <<"TFT", "TFT">>, <<"GRIM", "GRIM">>,
       <<"GTFT", "GTFT">> >>

DisplayNames ==
    {"Always Cooperate (ALL-C)", "Always Defect (ALL-D)", "Tit-for-Tat (TFT)",
     "Grim Trigger", "Generous TFT"}

\* C1: a runRoundRobin that directly follows reset(s) returns the same
\* matchResults, aggregate, score mapping and names as the first run that
\* directly followed reset(s), whatever was drawn or run before the reset.
C1_SameSeedSameResult ==
    (RRDone /\ call.afterReset # None) => ret = ref[call.afterReset[1]].out

\* a second run after reset(42), the first one after reset(42) having been the
\* first call, a stray draw in between, and the stream used by the run
C1_Witness ==
    /\ RRDone
    /\ calls = 2
    /\ call.afterReset = Box(42)
    /\ ref[42] # None
    /\ ref[42].run = 1
    /\ extraDraws > 0
    /\ \E k \in DOMAIN drawLog : drawLog[k].by # "continue"

\* C2 as stated: the returned list holds 15 results, the self-play ones included.
C2_FifteenResults ==
    RRDone =>
        /\ Len(ret.matchResults) = 15
        /\ \A k \in 1..15 : ret.matchResults[k] = games[k].result

\* C2 as amended: 15 matches are played, and the returned list holds the 10
\* results of the matches between distinct strategies, one per unordered pair;
\* no self-play result is in it.
C2_TenResults ==
    RRDone =>
        /\ Len(games) = 15
        /\ Len(ret.matchResults) = 10
        /\ \A k \in 1..10 :
              /\ ret.matchResults[k] = games[k].result
              /\ ret.matchResults[k].strategy1Name # ret.matchResults[k].strategy2Name
        /\ \A a, b \in DisplayNames :
              a # b =>
                Cardinality({k \in 1..10 :
                    {ret.matchResults[k].strategy1Name,
                     ret.matchResults[k].strategy2Name} = {a, b}}) = 1
        /\ results = ret.matchResults

C2_Witness == RRDone /\ Len(ret.matchResults) = 10 /\ Len(games) = 15

\* C3 as stated: every strategy's gamesPlayed is 5.
C3_FiveGames ==
    RRDone => \A a \in DisplayNames : ret.aggregated[a].gamesPlayed = 5

\* C3 as amended: every strategy's gamesPlayed is 4, its matches against the
\* four other strategies; its self-play match is not counted.
C3_FourGames ==
    RRDone =>
        /\ DOMAIN ret.aggregated = DisplayNames
        /\ \A a \in DisplayNames : ret.aggregated[a].gamesPlayed = 4

C3_Witness == RRDone /\ ret.aggregated["Generous TFT"].gamesPlayed = 4

\* the scores the strategy named a earned in match k of the run, in both roles
ScoreIn(a, k) ==
    (IF games[k].result.strategy1Name = a THEN games[k].result.finalScore1 ELSE 0)
    + (IF games[k].result.strategy2Name = a THEN games[k].result.finalScore2 ELSE 0)

RECURSIVE SumScores(_, _, _)
SumScores(a, from, to) ==
    IF from > to THEN 0 ELSE ScoreIn(a, from) + SumScores(a, from + 1, to)

\* C4 as stated: totalScore is the sum of the strategy's scores over all the
\* matches it played, its self-play match included.
C4_TotalWithSelfPlay ==
    RRDone => \A a \in DisplayNames : ret.aggregated[a].totalScore = SumScores(a, 1, 15)

\* C4 as amended: totalScore is the sum of the strategy's final scores over its
\* four matches against other strategies, whichever role it played; the scores
\* of its self-play match are not in it.
C4_TotalWithoutSelfPlay ==
    RRDone => \A a \in DisplayNames : ret.aggregated[a].totalScore = SumScores(a, 1, 10)

\* a finished run in which a self-play match earned something
C4_Witness ==
    /\ RRDone
    /\ Len(games) = 15
    /\ \E a \in DisplayNames : SumScores(a, 11, 15) # 0 /\ SumScores(a, 1, 10) # 0

\* C5: the matches of a run are created one after the other in the order
\* (i, j), i < j ascending, then the five self-play matches; every match has
\* two new strategy objects, distinct from each other and from those of every
\* other match, and new when play() starts; a match is created only when the
\* one before it has returned; and the draws of the run are in match order.
C5_MatchOrder ==
    (calls > 0 /\ call.op = "runRoundRobin") =>
        /\ Len(games) <= 15
        /\ \A k \in 1..Len(games) :
              /\ <<games[k].code1, games[k].code2>> = ExpectedOrder[k]
              /\ games[k].id1 # games[k].id2
              /\ k < Len(games) => games[k].result # None
              /\ \A l \in 1..Len(games) :
                    k < l => {games[k].id1, games[k].id2}
                                \cap {games[l].id1, games[l].id2} = {}
        /\ \A k \in 1..Len(drawLog) :
              /\ drawLog[k].match \in 1..Len(games)
              /\ k > 1 => drawLog[k - 1].match <= drawLog[k].match
        /\ pc = "play_reset" =>
              /\ game.strategy1.history = <<>> /\ game.strategy1.opponentHistory = <<>>
              /\ game.strategy2.history = <<>> /\ game.strategy2.opponentHistory = <<>>
              /\ game.strategy1.score = 0 /\ game.strategy2.score = 0
              /\ game.strategy1.id = games[Len(games)].id1
              /\ game.strategy2.id = games[Len(games)].id2
        /\ pc = "idle" => Len(games) = 15

\* a finished run whose draws came from several matches, a self-play one included
C5_Witness ==
    /\ RRDone
    /\ Len(games) = 15
    /\ \E k, l \in DOMAIN drawLog :
          drawLog[k].match < 10 /\ drawLog[l].match > 10

\* the games of the run played between the strategies named a and b
GamesBetween(a, b) ==
    {k \in 1..Len(games) :
        {games[k].result.strategy1Name, games[k].result.strategy2Name} = {a, b}}

FinalScoreOf(a, k) ==
    IF games[k].result.strategy1Name = a
    THEN games[k].result.finalScore1 ELSE games[k].result.finalScore2

\* C6: after a run every cell of the score mapping is set; the cell [a][b] is
\* a's final score in the one match between a and b, and the cell [a][a] the
\* score of a's self-play match (where both instances score the same).
C6_ScoreMapping ==
    RRDone =>
        /\ DOMAIN ret.payoffMatrix = DisplayNames
        /\ \A a, b \in DisplayNames :
              /\ ret.payoffMatrix[a][b] # None
              /\ Cardinality(GamesBetween(a, b)) = 1
              /\ \A k \in GamesBetween(a, b) :
                    /\ ret.payoffMatrix[a][b] = Box(FinalScoreOf(a, k))
                    /\ a = b => games[k].result.finalScore1 = games[k].result.finalScore2

\* a finished run with an asymmetric cell and a diagonal cell that is not 0
C6_Witness ==
    /\ RRDone
    /\ \E a, b \in DisplayNames :
          /\ ret.payoffMatrix[a][b] # None
          /\ ret.payoffMatrix[a][b] # ret.payoffMatrix[b][a]
          /\ ret.payoffMatrix[a][a] # Box(0)

-----------------------------------------------------------------------------
(* Pairwise calls, good and bad, one after the other: SpecPW *)

KnownCodes == {"ALLC", "ALLD", "TFT", "GRIM", "GTFT"}

PWConfigs ==
    {Tournament(StandardPayoff, d[1], sp, d[2]) :
        d \in {<<MaxNumRounds, None>>, <<0, PHalf>>},
        sp \in {NoParams, ForgiveHalf, ForgiveHalfNoise, NoiseOnly}}

PWPairs ==
    {<<"GTFT", "ALLD">>, <<"TFT", "GRIM">>, <<"ALLD", "GTFT">>,
     <<"XYZ", "TFT">>, <<"GTFT", "XYZ">>, <<"allc", "ALLC">>, <<"", "XYZ">>}

InitPW == InitWith(PWConfigs)

NextPW ==
    \/ \E s \in Seeds : Reset(s)
    \/ (calls < MaxCalls /\ \E p \in PWPairs : RunPairwise(p[1], p[2]))
    \/ PairwiseEnd
    \/ Play

SpecPW == InitPW /\ [][NextPW]_vars

\* the step that calls runPairwise with a code that is not one of the five
BadPairwiseCall ==
    /\ pc = "idle"
    /\ calls' = calls + 1
    /\ call'.op = "runPairwise"
    /\ (call'.args[1] \notin KnownCodes \/ call'.args[2] \notin KnownCodes)

\* C7: a runPairwise call with an unknown code in either position ends at once
\* with an "Unknown strategy" error naming the first unknown code: no Game is
\* made, no round played, no draw made, the seed and the stored results stay.
C7_UnknownCodeFails ==
    [][BadPairwiseCall =>
        /\ pc' = "idle"
        /\ ret' = [error |-> "Unknown strategy",
                   code |-> IF call'.args[1] \notin KnownCodes
                            THEN call'.args[1] ELSE call'.args[2]]
        /\ games' = <<>>
        /\ drawLog' = <<>>
        /\ game' = game
        /\ seed' = seed
        /\ results' = results]_vars

\* a failed call, the bad code in second position, after a call that stored a
\* result in which draws were made
C7_Witness ==
    /\ pc = "idle"
    /\ calls = 2
    /\ call.op = "runPairwise"
    /\ call.args[1] \in KnownCodes
    /\ call.args[2] \notin KnownCodes
    /\ Throws(ret)
    /\ Len(results) = 1
    /\ seed # SeedOf(42) /\ seed # SeedOf(123)

HasUnknownKey(params) == DOMAIN params \ {"forgiveness"} # {}

\* C8 as stated: with a key other than forgiveness in the bundle, a call fails
\* and builds no strategy for a match.
C8_UnknownKeyFails ==
    (calls > 0 /\ HasUnknownKey(cfg.strategyParams)) =>
        (pc = "idle" /\ Throws(ret) /\ games = <<>>)

\* C8 as amended: createStrategy reads only `forgiveness`.  A call whose codes
\* are known never fails, whatever other keys the bundle holds; a Generous TFT
\* in a match has the bundle's forgiveness, or 0.1 when the bundle has none.
C8_KeysIgnored ==
    /\ (calls > 0 /\ call.args[1] \in KnownCodes /\ call.args[2] \in KnownCodes)
          => (~Throws(ret) /\ Len(games) = 1)
    /\ pc \notin {"idle"} =>
          \A s \in {game.strategy1, game.strategy2} :
              s.class = "GenerousTitForTat" =>
                  s.forgiveness =
                      IF "forgiveness" \in DOMAIN cfg.strategyParams
                      THEN cfg.strategyParams.forgiveness
                      ELSE <<6553, 39322>>

\* a finished Generous TFT match under a bundle with only an unknown key, in
\* which a forgiveness draw was made
C8_Witness ==
    /\ pc = "idle"
    /\ calls > 0
    /\ cfg.strategyParams = NoiseOnly
    /\ call.args[1] = "GTFT"
    /\ ~Throws(ret)
    /\ Len(results) = 1
    /\ \E k \in DOMAIN drawLog : drawLog[k].by = "strategy1"

-----------------------------------------------------------------------------
(* One pairwise match per behaviour, over all pairs of codes: SpecMatch *)

ForgiveNever == [forgiveness |-> PZero]
ForgiveAlways == [forgiveness |-> POne]

MatchConfigs ==
    {Tournament(pm, d[1], sp, d[2]) :
        pm \in {StandardPayoff, OddPayoff},
        d \in {<<n, None>> : n \in 0..MaxNumRounds}
              \cup {<<n, p>> : n \in {0, MaxNumRounds},
                               p \in {PQuarter, PHalf, PThreeQuarters}},
        sp \in {NoParams, ForgiveHalf, ForgiveNever, ForgiveAlways}}

MatchSeeds == Seeds \cup {1}

InitMatch == InitWith(MatchConfigs)

NextMatch ==
    \/ (calls = 0 /\ \E s \in MatchSeeds : Reset(s))
    \/ (calls = 0 /\ \E c1, c2 \in KnownCodes : RunPairwise(c1, c2))
    \/ PairwiseEnd
    \/ Play

SpecMatch == InitMatch /\ [][NextMatch]_vars

\* the values drawn for the while condition of the match, in order
ContinuationDraws == SelectSeq(drawLog, LAMBDA e : e.by = "continue")

\* how many entries of q, from the first on, are below p before one is not
RECURSIVE LeadingBelow(_, _)
LeadingBelow(q, p) ==
    IF q = <<>> \/ ~LessW(q[1].val, p) THEN 0 ELSE 1 + LeadingBelow(Tail(q), p)

Min(a, b) == IF a < b THEN a ELSE b

Indefinite == calls > 0 /\ cfg.continuationProb # None

MatchOver == pc \in {"play_return", "played", "idle"}

RoundsPlayed == IF pc = "idle" THEN Len(ret.roundHistory) ELSE Len(game.roundHistory)

\* C9: in indefinite mode at least one round is played; while the loop runs
\* every continuation draw so far was below p and one round followed each; when
\* the match is over the number of rounds is 1 + the number of leading
\* continuation draws below p, at most 10,000; numRounds (0 or MaxNumRounds
\* here) does not enter, and the fixed-mode counter stays 0.
C9_RoundsFromDraws ==
    Indefinite =>
        /\ pc \in {"play_loop", "play_return", "played", "idle"} => RoundsPlayed >= 1
        /\ pc = "play_loop" =>
              /\ LeadingBelow(ContinuationDraws, cfg.continuationProb)
                    = Len(ContinuationDraws)
              /\ RoundsPlayed = 1 + Len(ContinuationDraws)
        /\ MatchOver =>
              /\ RoundsPlayed =
                    Min(1 + LeadingBelow(ContinuationDraws, cfg.continuationProb),
                        maxRounds)
              /\ Len(ContinuationDraws) = RoundsPlayed
        /\ pc \in {"play_loop", "play_return", "played"} =>
              /\ game.roundCount = RoundsPlayed
              /\ game.i = 0

\* a finished indefinite match longer than the configured numRounds
C9_Witness ==
    /\ Indefinite
    /\ pc = "idle"
    /\ cfg.numRounds = MaxNumRounds
    /\ Len(ret.roundHistory) > MaxNumRounds
    /\ LeadingBelow(ContinuationDraws, cfg.continuationProb) = Len(ret.roundHistory) - 1

-----------------------------------------------------------------------------
(* Matches up to the ceiling of play(), each as one step: SpecCeil *)

\* continuation probabilities 1/2, 3/4, 15/16 and 1.0
CeilProbs == {PHalf, PThreeQuarters, Prob(61440), POne}

CeilConfigs ==
    {Tournament(StandardPayoff, 0, ForgiveHalf, p) : p \in CeilProbs}

\* every pairing below 1.0; at 1.0 the pairing that draws in every round
CeilPairs(p) ==
    IF p = POne THEN {<<"GTFT", "ALLD">>} ELSE KnownCodes \X KnownCodes

InitCeil == InitWith(CeilConfigs)

NextCeil ==
    \/ (calls = 0 /\ \E p \in CeilPairs(cfg.continuationProb) : RunPairwise(p[1], p[2]))
    \/ PairwiseEnd
    \/ PlayWhole

SpecCeil == InitCeil /\ [][NextCeil]_vars

\* C10: play() returns within maxRounds + 3 of its steps; a match never has
\* more than 10,000 rounds; with probability 1.0 it has exactly 10,000; at the
\* ceiling, and only there, one warning is made, and the call returns a normal
\* MatchResult that is stored as the tournament's results.
C10_Ceiling ==
    Indefinite =>
        /\ pc \in {"play_reset", "played", "idle"}
        /\ pc # "play_reset" =>
              /\ RoundsPlayed <= maxRounds
              /\ cfg.continuationProb = POne => RoundsPlayed = maxRounds
              /\ warnings = (IF RoundsPlayed = maxRounds THEN 1 ELSE 0)
        /\ pc = "idle" =>
              /\ ~Throws(ret)
              /\ ret.roundHistory[RoundsPlayed].round = RoundsPlayed
              /\ results = <<ret>>

\* play() has returned at the ceiling, with a warning and a MatchResult
C10_Witness ==
    /\ Indefinite
    /\ pc = "played"
    /\ cfg.continuationProb = POne
    /\ game.roundCount = maxRounds
    /\ Len(games[1].result.roundHistory) = maxRounds
    /\ warnings = 1

-----------------------------------------------------------------------------
(* Claims about one match, checked under SpecMatch *)

FixedMode == calls > 0 /\ cfg.continuationProb = None

\* C11: in fixed mode the loop counter equals the number of rounds played and
\* never passes numRounds; when play() is over exactly numRounds rounds were
\* played and no draw decided a continuation; with numRounds = 0 the result
\* has an empty round history, both scores 0 and both cooperation rates 0.
C11_FixedRounds ==
    FixedMode =>
        /\ pc \in {"play_fixed", "play_return", "played"} =>
              /\ game.i = Len(game.roundHistory)
              /\ game.i <= cfg.numRounds
              /\ game.roundCount = 0
        /\ MatchOver =>
              /\ RoundsPlayed = cfg.numRounds
              /\ ContinuationDraws = <<>>
        /\ (pc = "idle" /\ cfg.numRounds = 0) =>
              /\ ret.roundHistory = <<>>
              /\ ret.finalScore1 = 0
              /\ ret.finalScore2 = 0
              /\ ret.cooperationRate1 = <<0, 1>>
              /\ ret.cooperationRate2 = <<0, 1>>
              /\ results = <<ret>>

\* a match of zero rounds has returned
C11_Witness ==
    /\ FixedMode
    /\ pc = "idle"
    /\ cfg.numRounds = 0
    /\ call.args = <<"ALLD", "GTFT">>
    /\ ret.roundHistory = <<>>

\* what the histories of the two strategies must be, given the rounds recorded
Moves1(rh) == [k \in 1..Len(rh) |-> rh[k].move1]
Moves2(rh) == [k \in 1..Len(rh) |-> rh[k].move2]

HistoriesAreRounds(g) ==
    /\ g.strategy1.history = Moves1(g.roundHistory)
    /\ g.strategy1.opponentHistory = Moves2(g.roundHistory)
    /\ g.strategy2.history = Moves2(g.roundHistory)
    /\ g.strategy2.opponentHistory = Moves1(g.roundHistory)

\* a step that plays one round
RoundStep ==
    /\ pc \in {"play_first", "play_loop", "play_fixed"}
    /\ Len(game'.roundHistory) = Len(game.roundHistory) + 1

\* the seed globalRandom has when strategy1 decides in a round step: in the
\* loop the while condition has drawn before
SeedAtDecision == IF pc = "play_loop" THEN random(seed).seed ELSE seed

\* C12: between rounds the own and opponent histories of both strategies are
\* exactly the moves of the rounds recorded so far; and the two moves of the
\* round a step plays are what makeMove gives on the strategies as they are
\* before the step, strategy1 first, so with histories of rounds 1..k-1 only.
C12_DecideBeforeRecord ==
    /\ [](game # None => HistoriesAreRounds(game))
    /\ [][RoundStep =>
            /\ Last(game'.roundHistory).move1
                  = makeMove(game.strategy1, SeedAtDecision).move
            /\ Last(game'.roundHistory).move2
                  = makeMove(game.strategy2,
                             makeMove(game.strategy1, SeedAtDecision).seed).move
            /\ Len(game.strategy1.history) = Len(game'.roundHistory) - 1
            /\ Len(game.strategy2.opponentHistory) = Len(game'.roundHistory) - 1]_vars

\* Tit-for-Tat cooperated in the round in which Always Defect first defected,
\* and answered one round later
C12_Witness ==
    /\ pc = "idle"
    /\ calls > 0
    /\ call.args = <<"ALLD", "TFT">>
    /\ Len(ret.roundHistory) >= 2
    /\ ret.roundHistory[1].move2 = COOPERATE
    /\ ret.roundHistory[2].move2 = DEFECT

\* the payoffs of a round with moves a1, a2 under the matrix pm
PayoffsFor(pm, a1, a2) ==
    CASE a1 = "C" /\ a2 = "C" -> <<pm.R, pm.R>>
      [] a1 = "C" /\ a2 = "D" -> <<pm.S, pm.T>>
      [] a1 = "D" /\ a2 = "C" -> <<pm.T, pm.S>>
      [] a1 = "D" /\ a2 = "D" -> <<pm.P, pm.P>>

RecordsAddUp(rh, pm) ==
    \A k \in 1..Len(rh) :
        /\ rh[k].round = k
        /\ <<rh[k].payoff1, rh[k].payoff2>> = PayoffsFor(pm, rh[k].move1, rh[k].move2)
        /\ rh[k].cumScore1 = (IF k = 1 THEN 0 ELSE rh[k - 1].cumScore1) + rh[k].payoff1
        /\ rh[k].cumScore2 = (IF k = 1 THEN 0 ELSE rh[k - 1].cumScore2) + rh[k].payoff2

\* rate = count / n for n > 0, rate being a fraction <<numerator, denominator>>
IsQuotient(rate, count, n) == rate[2] > 0 /\ rate[1] * n = count * rate[2]

\* C13: the k-th record has index k, the payoffs of its moves and the running
\* sums of the payoffs; the result's final scores are the last record's sums
\* and its cooperation rates the share of records with COOPERATE for that side.
C13_RecordsAndResult ==
    /\ game # None => RecordsAddUp(game.roundHistory, cfg.payoffMatrix)
    /\ (pc = "idle" /\ calls > 0 /\ Len(ret.roundHistory) > 0) =>
          /\ RecordsAddUp(ret.roundHistory, cfg.payoffMatrix)
          /\ ret.finalScore1 = Last(ret.roundHistory).cumScore1
          /\ ret.finalScore2 = Last(ret.roundHistory).cumScore2
          /\ IsQuotient(ret.cooperationRate1, CountC(Moves1(ret.roundHistory)),
                        Len(ret.roundHistory))
          /\ IsQuotient(ret.cooperationRate2, CountC(Moves2(ret.roundHistory)),
                        Len(ret.roundHistory))

\* a result of several rounds with unequal scores and a cooperation rate
\* strictly between 0 and 1
C13_Witness ==
    /\ pc = "idle"
    /\ calls > 0
    /\ cfg.payoffMatrix = OddPayoff
    /\ Len(ret.roundHistory) > 2
    /\ ret.finalScore1 # ret.finalScore2
    /\ ret.cooperationRate1[1] > 0
    /\ ret.cooperationRate1[1] < ret.cooperationRate1[2]

-----------------------------------------------------------------------------
(* One strategy object driven through makeMove, recordMove and reset with   *)
(* every sequence of opponent moves: SpecStrat.  `locals` holds the object  *)
(* and the number of resets made.                                           *)

MaxDecisions == 4
MaxResets == 1

StratObjects ==
    {GrimTrigger(1), TitForTat(1)}
    \cup {GenerousTitForTat(1, f) : f \in {PZero, PHalf, POne, DefaultForgiveness}}

InitStrat ==
    /\ cfg = Tournament(StandardPayoff, 0, NoParams, None)
    /\ seed = SeedOf(42)
    /\ drawLog = <<>>
    /\ results = <<>>
    /\ pc = "idle"
    /\ call = None
    /\ locals \in {[strategy |-> st, resets |-> 0] : st \in StratObjects}
    /\ nextId = 1
    /\ games = <<>>
    /\ game = None
    /\ ret = None
    /\ warnings = 0
    /\ calls = 0
    /\ extraDraws = 0
    /\ sinceReset = None
    /\ ref = [s \in Seeds |-> None]

\* what playRound does to one strategy in a round, lines 226 and 233, m being
\* what its makeMove gave and opp the move of the other side
Decided(m, opp) ==
    /\ locals' = [locals EXCEPT !.strategy = recordMove(m.strat, m.move, opp)]
    /\ seed' = m.seed
    /\ drawLog' = drawLog \o InMatch(Tag(m.drew, "strategy1"), locals.resets + 1)

StratDecide(opp) ==
    /\ Len(locals.strategy.history) < MaxDecisions
    /\ Decided(makeMove(locals.strategy, seed), opp)
    /\ UNCHANGED <<cfg, results, pc, call, nextId, games, game, ret, warnings, calls,
                   extraDraws, sinceReset, ref>>

\* play(), lines 256-257: the strategy reset for another match
StratReset ==
    /\ locals.resets < MaxResets
    /\ Len(locals.strategy.history) > 0
    /\ locals' = [locals EXCEPT !.strategy = reset(@), !.resets = @ + 1]
    /\ UNCHANGED <<seed, drawLog, cfg, results, pc, call, nextId, games, game, ret,
                   warnings, calls, extraDraws, sinceReset, ref>>

NextStrat ==
    \/ (locals.resets = 0 /\ Len(locals.strategy.history) = 0
        /\ \E s \in MatchSeeds : Reset(s))
    \/ \E opp \in {COOPERATE, DEFECT} : StratDecide(opp)
    \/ StratReset

SpecStrat == InitStrat /\ [][NextStrat]_vars

DefectedBefore(opp, k) == \E j \in 1..(k - 1) : opp[j] = DEFECT

IsGrim == locals.strategy.class = "GrimTrigger"

\* C14: Grim Trigger's k-th move is DEFECT exactly when the opponent defected
\* in some round before k, whatever the opponent did since; the flag is set
\* only after a defection, is never cleared while the match goes on, and is
\* clear whenever a match starts.
C14_GrimLatch ==
    /\ [](IsGrim =>
            /\ \A k \in 1..Len(locals.strategy.history) :
                  locals.strategy.history[k] = DEFECT
                      <=> DefectedBefore(locals.strategy.opponentHistory, k)
            /\ locals.strategy.triggered
                  => DefectedBefore(locals.strategy.opponentHistory,
                                    Len(locals.strategy.opponentHistory))
            /\ Len(locals.strategy.history) = 0 => ~locals.strategy.triggered)
    /\ [][(IsGrim /\ locals.strategy.triggered /\ Len(locals'.strategy.history) > 0)
            => locals'.strategy.triggered]_vars

\* in its second match Grim Trigger kept defecting though the opponent went
\* back to cooperating
C14_Witness ==
    /\ IsGrim
    /\ locals.resets = 1
    /\ locals.strategy.opponentHistory = <<COOPERATE, DEFECT, COOPERATE, COOPERATE>>
    /\ locals.strategy.history = <<COOPERATE, COOPERATE, DEFECT, DEFECT>>
    /\ locals.strategy.triggered

IsGTFT == locals.strategy.class = "GenerousTitForTat"

DecisionStep == Len(locals'.strategy.history) = Len(locals.strategy.history) + 1

LastWasDefect(s) == Len(s.opponentHistory) > 0 /\ Last(s.opponentHistory) = DEFECT

\* C15: a decision of Generous TFT makes one draw when the last recorded move
\* of the opponent is DEFECT and none otherwise, the generator advancing by
\* exactly that; for every forgiveness, 0 included.
C15_OneDrawPerDefection ==
    [][(IsGTFT /\ DecisionStep) =>
          IF LastWasDefect(locals.strategy)
          THEN /\ Len(drawLog') = Len(drawLog) + 1
               /\ seed' = SeedAdvance(seed)
               /\ Last(drawLog').val = Mix(seed')
          ELSE /\ drawLog' = drawLog
               /\ seed' = seed]_vars

\* with forgiveness 0: three decisions, the second after a defection, the
\* third after a cooperation, one draw in all
C15_Witness ==
    /\ IsGTFT
    /\ locals.strategy.forgiveness = PZero
    /\ locals.strategy.opponentHistory = <<DEFECT, COOPERATE, DEFECT>>
    /\ Len(drawLog) = 1

\* C17: Generous TFT with forgiveness 1.0 plays COOPERATE in every round,
\* whatever the opponent does and whatever the seed.
C17_AlwaysForgives ==
    (IsGTFT /\ locals.strategy.forgiveness = POne) =>
        \A k \in 1..Len(locals.strategy.history) : locals.strategy.history[k] = COOPERATE

\* forgiveness 1.0, several defections forgiven
C17_Witness ==
    /\ IsGTFT
    /\ locals.strategy.forgiveness = POne
    /\ locals.strategy.opponentHistory = <<DEFECT, DEFECT, COOPERATE, DEFECT>>
    /\ Len(drawLog) >= 2
    /\ seed # SeedOf(42)

-----------------------------------------------------------------------------
(* Claims comparing a match with another run of play(), under SpecMatch *)

\* the Game after runPairwise's lines 310-314 for the codes c1, c2 under the
\* running configuration, globalRandom.seed being sd when it starts
PlayedGame(c1, c2, sd) ==
    RunSteps([pc |-> "play_reset",
              game |-> Game(createStrategy(c1, cfg.strategyParams, 1),
                            createStrategy(c2, cfg.strategyParams, 2),
                            cfg.payoffMatrix, cfg.numRounds, cfg.continuationProb),
              seed |-> sd, drawLog |-> <<>>, warnings |-> 0, match |-> 1],
             StepsOfPlay).game

\* the seed the running call started from: the last reset's, or the initial 42
StartSeed == IF call.afterReset = None THEN SeedOf(42) ELSE SeedOf(call.afterReset[1])

PairwiseDone == pc = "idle" /\ calls > 0 /\ ~Throws(ret)

AgreeOnCommonRounds(a, b) == \A k \in 1..Min(Len(a), Len(b)) : a[k] = b[k]

\* C16: with forgiveness 0.0, Generous TFT makes the moves Tit-for-Tat makes
\* in its place against the same opponent from the same seed: round for round
\* in every mode, and over the same number of rounds in fixed mode.
C16_ZeroForgivenessIsTFT ==
    (PairwiseDone /\ cfg.strategyParams = ForgiveNever) =>
        /\ call.args[1] = "GTFT" =>
              /\ AgreeOnCommonRounds(
                    Moves1(ret.roundHistory),
                    Moves1(PlayedGame("TFT", call.args[2], StartSeed).roundHistory))
              /\ FixedMode =>
                    Moves1(ret.roundHistory)
                        = Moves1(PlayedGame("TFT", call.args[2], StartSeed).roundHistory)
        /\ call.args[2] = "GTFT" =>
              /\ AgreeOnCommonRounds(
                    Moves2(ret.roundHistory),
                    Moves2(PlayedGame(call.args[1], "TFT", StartSeed).roundHistory))
              /\ FixedMode =>
                    Moves2(ret.roundHistory)
                        = Moves2(PlayedGame(call.args[1], "TFT", StartSeed).roundHistory)

\* forgiveness 0.0 against Always Defect: draws were made, nothing forgiven
C16_Witness ==
    /\ PairwiseDone
    /\ FixedMode
    /\ cfg.strategyParams = ForgiveNever
    /\ cfg.numRounds = MaxNumRounds
    /\ call.args = <<"GTFT", "ALLD">>
    /\ Len(drawLog) = MaxNumRounds - 1
    /\ \A k \in 2..MaxNumRounds : ret.roundHistory[k].move1 = DEFECT

DrawFree == {"ALLC", "ALLD", "TFT", "GRIM"}

DrawFreeMatchDone ==
    PairwiseDone /\ call.args[1] \in DrawFree /\ call.args[2] \in DrawFree

SameForEverySeed ==
    \A s \in MatchSeeds :
        ret = MatchResult(PlayedGame(call.args[1], call.args[2], SeedOf(s)))

\* C18 as stated: a match between two of ALL-C, ALL-D, TFT, GRIM makes no
\* draw, and its result is the same for every seed.
C18_NoDrawsInAnyMode ==
    DrawFreeMatchDone => (drawLog = <<>> /\ SameForEverySeed)

\* C18 as amended: in such a match no strategy draws; in fixed mode the match
\* makes no draw at all, leaves the generator where it was, and its result is
\* the same for every seed; in indefinite mode every draw of the match is a
\* continuation draw of play(), one per round played.
C18_NoStrategyDraws ==
    DrawFreeMatchDone =>
        /\ \A k \in 1..Len(drawLog) : drawLog[k].by = "continue"
        /\ FixedMode => (drawLog = <<>> /\ seed = StartSeed /\ SameForEverySeed)
        /\ ~FixedMode => Len(drawLog) = Len(ret.roundHistory)

\* a fixed-mode match of TFT against Always Defect after reset(123)
C18_Witness ==
    /\ DrawFreeMatchDone
    /\ FixedMode
    /\ call.afterReset = Box(123)
    /\ call.args = <<"TFT", "ALLD">>
    /\ Len(ret.roundHistory) = MaxNumRounds
    /\ drawLog = <<>>

-----------------------------------------------------------------------------
(* Matches under many payoff matrices: SpecPay *)

\* the values T, R, P and S are taken from, in every combination
PayoffValues == {-1, 0, 3}

PayConfigs ==
    {Tournament(PayoffMatrix(T, R, P, S), d[1], NoParams, d[2]) :
        T \in PayoffValues, R \in PayoffValues, P \in PayoffValues, S \in PayoffValues,
        d \in {<<n, None>> : n \in 1..MaxNumRounds} \cup {<<0, PThreeQuarters>>}}

PayPairs == {<<"TFT", "TFT">>, <<"ALLD", "ALLC">>, <<"ALLC", "ALLD">>}

InitPay == InitWith(PayConfigs)

NextPay ==
    \/ (calls = 0 /\ \E p \in PayPairs : RunPairwise(p[1], p[2]))
    \/ PairwiseEnd
    \/ Play

SpecPay == InitPay /\ [][NextPay]_vars

\* C19: TFT against TFT over n >= 1 rounds: COOPERATE by both sides in every
\* round, both final scores n * R; n is numRounds in fixed mode.
C19_TFTvsTFT ==
    (PairwiseDone /\ call.args = <<"TFT", "TFT">>) =>
        /\ Len(ret.roundHistory) >= 1
        /\ FixedMode => Len(ret.roundHistory) = cfg.numRounds
        /\ \A k \in 1..Len(ret.roundHistory) :
              /\ ret.roundHistory[k].move1 = COOPERATE
              /\ ret.roundHistory[k].move2 = COOPERATE
        /\ ret.finalScore1 = Len(ret.roundHistory) * cfg.payoffMatrix.R
        /\ ret.finalScore2 = Len(ret.roundHistory) * cfg.payoffMatrix.R

\* the longest fixed match, under a matrix whose R is not its largest entry
C19_Witness ==
    /\ PairwiseDone
    /\ call.args = <<"TFT", "TFT">>
    /\ FixedMode
    /\ cfg.numRounds = MaxNumRounds
    /\ cfg.payoffMatrix = PayoffMatrix(3, -1, 0, 3)
    /\ ret.finalScore1 = -MaxNumRounds

\* C20: ALL-D against ALL-C over n >= 1 rounds, in either seating: ALL-D ends
\* with n * T and cooperation rate 0, ALL-C with n * S and cooperation rate 1.
C20_ALLDvsALLC ==
    /\ (PairwiseDone /\ call.args = <<"ALLD", "ALLC">>) =>
          /\ Len(ret.roundHistory) >= 1
          /\ FixedMode => Len(ret.roundHistory) = cfg.numRounds
          /\ ret.finalScore1 = Len(ret.roundHistory) * cfg.payoffMatrix.T
          /\ ret.finalScore2 = Len(ret.roundHistory) * cfg.payoffMatrix.S
          /\ ret.cooperationRate1 = <<0, 1>>
          /\ ret.cooperationRate2 = <<1, 1>>
    /\ (PairwiseDone /\ call.args = <<"ALLC", "ALLD">>) =>
          /\ ret.finalScore1 = Len(ret.roundHistory) * cfg.payoffMatrix.S
          /\ ret.finalScore2 = Len(ret.roundHistory) * cfg.payoffMatrix.T
          /\ ret.cooperationRate1 = <<1, 1>>
          /\ ret.cooperationRate2 = <<0, 1>>

\* the longest fixed match, with T and S apart
C20_Witness ==
    /\ PairwiseDone
    /\ call.args = <<"ALLD", "ALLC">>
    /\ FixedMode
    /\ cfg.numRounds = MaxNumRounds
    /\ cfg.payoffMatrix.T = 3
    /\ cfg.payoffMatrix.S = -1
    /\ ret.finalScore1 = 3 * MaxNumRounds
    /\ ret.finalScore2 = -MaxNumRounds

-----------------------------------------------------------------------------
(* getPayoff called on its own, for every matrix and both actions of both  *)
(* sides: SpecGetPayoff.  `call` holds the arguments, `ret` the pair       *)
(* returned.                                                               *)

PayoffMatrices ==
    {PayoffMatrix(T, R, P, S) :
        T \in PayoffValues, R \in PayoffValues, P \in PayoffValues, S \in PayoffValues}
    \cup {StandardPayoff, OddPayoff}

InitGetPayoff == InitWith({Tournament(pm, 1, NoParams, None) : pm \in PayoffMatrices})

\* cfg.payoffMatrix.getPayoff(action1, action2), lines 39-49
GetPayoffCall(action1, action2) ==
    /\ calls < MaxCalls
    /\ calls' = calls + 1
    /\ call' = [op |-> "getPayoff", args |-> <<action1, action2>>]
    /\ ret' = getPayoff(cfg.payoffMatrix, action1, action2)
    /\ UNCHANGED <<seed, drawLog, cfg, results, pc, locals, nextId, games, game,
                   warnings, extraDraws, sinceReset, ref>>

NextGetPayoff == \E action1, action2 \in {COOPERATE, DEFECT} : GetPayoffCall(action1, action2)

SpecGetPayoff == InitGetPayoff /\ [][NextGetPayoff]_vars

Swap(pair) == <<pair[2], pair[1]>>

\* C21: for every T, R, P, S, in any order and negative or not, getPayoff gives
\* (R,R) for C/C, (S,T) for C/D, (T,S) for D/C and (P,P) for D/D; the pair for
\* (a, b) is the pair for (b, a) swapped; and the call leaves the matrix, the
\* generator and everything else as they were.
C21_GetPayoff ==
    /\ [](calls > 0 =>
            /\ ret = (CASE call.args = <<"C", "C">> -> <<cfg.payoffMatrix.R, cfg.payoffMatrix.R>>
                        [] call.args = <<"C", "D">> -> <<cfg.payoffMatrix.S, cfg.payoffMatrix.T>>
                        [] call.args = <<"D", "C">> -> <<cfg.payoffMatrix.T, cfg.payoffMatrix.S>>
                        [] call.args = <<"D", "D">> -> <<cfg.payoffMatrix.P, cfg.payoffMatrix.P>>)
            /\ ret = Swap(getPayoff(cfg.payoffMatrix, call.args[2], call.args[1]))
            /\ (cfg.payoffMatrix = PayoffMatrix(5, 3, 1, 0) /\ call.args = <<"C", "D">>)
                  => ret = <<0, 5>>
            /\ (cfg.payoffMatrix = PayoffMatrix(5, 3, 1, 0) /\ call.args = <<"D", "D">>)
                  => ret = <<1, 1>>)
    /\ [][calls' = calls + 1 =>
            /\ cfg' = cfg
            /\ seed' = seed
            /\ drawLog' = drawLog
            /\ <<results, pc, locals, nextId, games, game, warnings>>'
                  = <<results, pc, locals, nextId, games, game, warnings>>]_vars

\* under a matrix whose sucker payoff exceeds its temptation payoff, the
\* cooperator of a one-sided defection was given the larger number
C21_Witness ==
    /\ calls = 2
    /\ cfg.payoffMatrix = PayoffMatrix(-1, 0, 0, 3)
    /\ call.args = <<"C", "D">>
    /\ ret = <<3, -1>>

-----------------------------------------------------------------------------
(* The state of the random source, under SpecMatch *)

\* C22 as stated: after any resets and draws globalRandom.seed is an unsigned
\* 32-bit integer, every draw having advanced it by 0x6D2B79F5 modulo 2^32.
C22_SeedStays32Bit ==
    /\ seed.k = 0
    /\ seed.hi \in 0..(H - 1)
    /\ seed.lo \in 0..(H - 1)

-----------------------------------------------------------------------------
(* The averages of the round-robin aggregate, under Spec *)

RECURSIVE SumSeq(_)
SumSeq(q) == IF q = <<>> THEN 0 ELSE q[1] + SumSeq(Tail(q))

RECURSIVE FracSum(_)
FracSum(q) == IF q = <<>> THEN <<0, 1>> ELSE FracAdd(q[1], FracSum(Tail(q)))

\* the matches of mr that name played, as indices, and its side in each
MatchesOf(name, mr) ==
    SelectSeq([k \in 1..Len(mr) |-> k],
              LAMBDA k : name \in {mr[k].strategy1Name, mr[k].strategy2Name})
IsFirst(name, r) == r.strategy1Name = name

\* per match of name: its cooperation rate, its COOPERATE moves, the rounds
RatesOf(name, mr) ==
    [n \in 1..Len(MatchesOf(name, mr)) |->
        IF IsFirst(name, mr[MatchesOf(name, mr)[n]])
        THEN mr[MatchesOf(name, mr)[n]].cooperationRate1
        ELSE mr[MatchesOf(name, mr)[n]].cooperationRate2]
CooperationsOf(name, mr) ==
    [n \in 1..Len(MatchesOf(name, mr)) |->
        IF IsFirst(name, mr[MatchesOf(name, mr)[n]])
        THEN CountC(Moves1(mr[MatchesOf(name, mr)[n]].roundHistory))
        ELSE CountC(Moves2(mr[MatchesOf(name, mr)[n]].roundHistory))]
RoundsOf(name, mr) ==
    [n \in 1..Len(MatchesOf(name, mr)) |-> Len(mr[MatchesOf(name, mr)[n]].roundHistory)]

\* x * n = y for a fraction x, a whole number n and a fraction y
TimesIs(x, n, y) == x[1] * n * y[2] = y[1] * x[2]

\* C23: for every strategy of the aggregate a round-robin run returns,
\* averageScore * gamesPlayed = totalScore, and cooperationRate * gamesPlayed
\* is the sum of the cooperation rates of the matches the strategy played.
C23_Averages ==
    RRDone =>
        \A name \in DOMAIN ret.aggregated :
            /\ ret.aggregated[name].gamesPlayed = Len(MatchesOf(name, ret.matchResults))
            /\ ret.aggregated[name].gamesPlayed > 0
            /\ TimesIs(ret.aggregated[name].averageScore,
                       ret.aggregated[name].gamesPlayed,
                       <<ret.aggregated[name].totalScore, 1>>)
            /\ TimesIs(ret.aggregated[name].cooperationRate,
                       ret.aggregated[name].gamesPlayed,
                       FracSum(RatesOf(name, ret.matchResults)))

\* the pooled share of COOPERATE over all rounds of all matches of name
PooledRate(name, mr) ==
    Div(<<SumSeq(CooperationsOf(name, mr)), 1>>, SumSeq(RoundsOf(name, mr)))

\* matches of different lengths: the reported rate of Generous TFT is not
\* its pooled share of COOPERATE
C23_Witness ==
    /\ RRDone
    /\ cfg.continuationProb # None
    /\ \E m, n \in 1..Len(RoundsOf("Generous TFT", ret.matchResults)) :
          RoundsOf("Generous TFT", ret.matchResults)[m]
              # RoundsOf("Generous TFT", ret.matchResults)[n]
    /\ ret.aggregated["Generous TFT"].cooperationRate
          # PooledRate("Generous TFT", ret.matchResults)
    /\ ret.aggregated["Generous TFT"].totalScore # 0

-----------------------------------------------------------------------------
(* app.js: runSimulation, from the values it reads to the tournament call: *)
(* SpecSim.  What parseInt or parseFloat gave is a number or NaN; a rate   *)
(* or probability is kept in units of 1/65536.  `locals` holds the mode    *)
(* between the construction of the Tournament and the call of its method.  *)

MaxRoundsAllowed == 1000

NaN == [nan |-> TRUE, val |-> 0]
Num(v) == [nan |-> FALSE, val |-> v]

\* x < c, x > c and x === c for a Number x: false when x is NaN
Lt(x, c) == ~x.nan /\ x.val < c
Gt(x, c) == ~x.nan /\ x.val > c
Eq(x, c) == ~x.nan /\ x.val = c

\* what the engine makes of a rate x in `random() < x`: below NaN is false
\* for every draw, as below 0 is
Threshold(x) == IF x.nan THEN PZero ELSE Prob(x.val)

\* what the engine makes of numRounds in `i < this.numRounds`: null counts
\* as 0, and below NaN is false for every i
RoundsLimit(x) == IF x = None \/ x.nan THEN 0 ELSE x.val

\* globalRandom.reset(seed) for what parseInt gave
ResetTo(x) == IF x.nan THEN [nan |-> TRUE] ELSE SeedOf(x.val)

SimSeeds == {NaN, Num(0), Num(42)}
SimRates == {NaN, Num(-32768), Num(32768), Num(98304)}
SimProbs == {NaN, Num(-32768), Num(0), Num(32768), Num(98304)}
SimRounds == {NaN, Num(0), Num(1), Num(MaxRoundsAllowed), Num(MaxRoundsAllowed + 1)}
SimModes == {"pairwise", "roundrobin"}

\* the values runSimulation reads, lines 68-84 and 138
SimInputs ==
    {[seed |-> s, forgivenessRate |-> f, durationType |-> "fixed", numRounds |-> n,
      continuationProb |-> None, mode |-> m] :
        s \in SimSeeds, f \in SimRates, n \in SimRounds, m \in SimModes}
    \cup
    {[seed |-> s, forgivenessRate |-> f, durationType |-> "indefinite",
      numRounds |-> None, continuationProb |-> p, mode |-> m] :
        s \in SimSeeds, f \in SimRates, p \in SimProbs, m \in SimModes}

\* lines 98-124: the alert of the first validation that fails, or None
Rejection(in) ==
    IF in.durationType = "fixed"
       /\ (Lt(in.numRounds, 1) \/ Gt(in.numRounds, MaxRoundsAllowed))
    THEN Box("Number of rounds must be between 1 and 1000")
    ELSE IF in.durationType # "fixed"
            /\ (Lt(in.continuationProb, 0) \/ Gt(in.continuationProb, H))
    THEN Box("Continuation probability must be between 0.0 and 1.0")
    ELSE IF in.durationType # "fixed" /\ Eq(in.continuationProb, 0)
    THEN Box("Continuation probability cannot be 0 (game would never start)")
    ELSE IF in.seed.nan \/ Lt(in.seed, 1)
    THEN Box("Random seed must be a positive integer")
    ELSE IF Lt(in.forgivenessRate, 0) \/ Gt(in.forgivenessRate, H)
    THEN Box("Forgiveness rate must be between 0.0 and 1.0")
    ELSE None

\* lines 127-135: new Tournament(payoffMatrix, numRounds, strategyParams,
\* continuationProb), the payoffs read being 5, 3, 1, 0
SimTournament(in) ==
    Tournament(StandardPayoff, RoundsLimit(in.numRounds),
               [forgiveness |-> Threshold(in.forgivenessRate)],
               IF in.continuationProb = None THEN None
               ELSE Threshold(in.continuationProb))

\* runSimulation, lines 67-138: read, reset the generator, validate, and
\* either alert and return or construct the Tournament and read the mode
RunSimulation(in) ==
    /\ pc = "idle"
    /\ cfg = None
    /\ seed' = ResetTo(in.seed)
    /\ sinceReset' = IF in.seed.nan THEN None ELSE Box(in.seed.val)
    /\ IF Rejection(in) # None
       THEN /\ ret' = [alert |-> Rejection(in)[1]]
            /\ UNCHANGED <<cfg, locals>>
       ELSE /\ ret' = None
            /\ cfg' = SimTournament(in)
            /\ locals' = [mode |-> in.mode]
    /\ UNCHANGED <<drawLog, results, pc, call, nextId, games, game, warnings, calls,
                   extraDraws, ref>>

SimPending(mode) ==
    pc = "idle" /\ cfg # None /\ calls = 0 /\ locals # None /\ locals.mode = mode

\* lines 140-141 and runPairwiseMode, lines 149-153, for one choice of codes
RunPairwiseMode == SimPending("pairwise") /\ RunPairwise("GTFT", "ALLD")

\* lines 142-143 and runRoundRobinMode, line 171
RunRoundRobinMode == SimPending("roundrobin") /\ RunRoundRobin

InitSim == InitWith({None})

NextSim ==
    \/ \E in \in SimInputs : RunSimulation(in)
    \/ RunPairwiseMode
    \/ RunRoundRobinMode
    \/ PairwiseEnd
    \/ RRPairCreate
    \/ RRPairEnd
    \/ RRSelfCreate
    \/ RRSelfEnd
    \/ RRAggregate
    \/ PlayWhole

SpecSim == InitSim /\ [][NextSim]_vars

\* the inputs the claim calls out of range
OutOfRange(in) ==
    \/ in.seed.nan \/ in.seed.val < 1
    \/ in.forgivenessRate.nan \/ in.forgivenessRate.val < 0 \/ in.forgivenessRate.val > H
    \/ /\ in.durationType = "fixed"
       /\ (in.numRounds.nan \/ in.numRounds.val < 1
           \/ in.numRounds.val > MaxRoundsAllowed)
    \/ /\ in.durationType # "fixed"
       /\ (in.continuationProb.nan \/ in.continuationProb.val <= 0
           \/ in.continuationProb.val > H)

\* C24 as stated: a run of runSimulation on out-of-range inputs constructs no
\* Tournament, starts no call and no match, and neither resets globalRandom
\* nor draws from it.
C24_RejectedBeforeEngine ==
    [][\A in \in SimInputs :
          (RunSimulation(in) /\ OutOfRange(in)) =>
              /\ cfg' = None
              /\ seed' = seed
              /\ UNCHANGED <<drawLog, pc, call, calls, games, game, results>>]_vars

-----------------------------------------------------------------------------
(* A pairwise match whose Game is played a second time: SpecReplay.  The   *)
(* second play() starts from strategies that hold the first match's moves. *)

\* game.play() called again on the Game of the match just played
PlayAgain ==
    /\ pc = "played"
    /\ call.op = "runPairwise"
    /\ locals = None
    /\ locals' = [replay |-> TRUE]
    /\ pc' = "play_reset"
    /\ UNCHANGED <<seed, drawLog, cfg, results, call, nextId, games, game, ret,
                   warnings, calls, extraDraws, sinceReset, ref>>

SpecReplay == InitMatch /\ [][NextMatch \/ PlayAgain]_vars

IsPrefix(a, b) == Len(a) <= Len(b) /\ \A k \in 1..Len(a) : a[k] = b[k]

GrownByAtMostOne(a, b) == IsPrefix(a, b) /\ Len(b) <= Len(a) + 1

Mirrored(g) ==
    /\ g.strategy1.history = g.strategy2.opponentHistory
    /\ g.strategy2.history = g.strategy1.opponentHistory
    /\ Len(g.strategy1.history) = Len(g.roundHistory)
    /\ Len(g.strategy2.history) = Len(g.roundHistory)
    /\ Len(g.strategy1.opponentHistory) = Len(g.roundHistory)
    /\ Len(g.strategy2.opponentHistory) = Len(g.roundHistory)
    /\ \A k \in 1..Len(g.roundHistory) :
          /\ g.strategy1.history[k] = g.roundHistory[k].move1
          /\ g.strategy2.history[k] = g.roundHistory[k].move2

\* C25: whenever a Game exists, each strategy's history is the other's
\* opponent history, the four sequences are as long as the round history and
\* hold its move1 / move2 entry by entry; a step of a match only appends to
\* them, one entry at most; and the reset that starts a match leaves all
\* four empty, whatever they held.
C25_MirroredHistories ==
    /\ [](game # None => Mirrored(game))
    /\ [][(pc \in {"play_first", "play_loop", "play_fixed"}) =>
            /\ GrownByAtMostOne(game.strategy1.history, game'.strategy1.history)
            /\ GrownByAtMostOne(game.strategy1.opponentHistory,
                                game'.strategy1.opponentHistory)
            /\ GrownByAtMostOne(game.strategy2.history, game'.strategy2.history)
            /\ GrownByAtMostOne(game.strategy2.opponentHistory,
                                game'.strategy2.opponentHistory)]_vars
    /\ [][(pc = "play_reset" /\ pc' # "play_reset") =>
            /\ game'.strategy1.history = <<>>
            /\ game'.strategy1.opponentHistory = <<>>
            /\ game'.strategy2.history = <<>>
            /\ game'.strategy2.opponentHistory = <<>>
            /\ game'.roundHistory = <<>>]_vars

\* the second play of a Game whose first play had three rounds or more,
\* after its second round: Generous TFT against Always Defect
C25_Witness ==
    /\ locals # None
    /\ pc \in {"play_loop", "play_fixed"}
    /\ call.args = <<"GTFT", "ALLD">>
    /\ Len(games[1].result.roundHistory) >= 3
    /\ Len(game.roundHistory) = 2
    /\ game.strategy1.opponentHistory = <<DEFECT, DEFECT>>
    /\ game.strategy2.opponentHistory = game.strategy1.history

-----------------------------------------------------------------------------
(* Matches in both modes, up to the ceiling, each as one step: SpecDraws *)

DrawConfigs ==
    CeilConfigs
    \cup {Tournament(StandardPayoff, n, ForgiveHalf, None) : n \in 1..MaxNumRounds}

InitDraws == InitWith(DrawConfigs)

NextDraws ==
    \/ (calls = 0 /\ \E p \in CeilPairs(cfg.continuationProb) : RunPairwise(p[1], p[2]))
    \/ PairwiseEnd
    \/ PlayWhole

SpecDraws == InitDraws /\ [][NextDraws]_vars

\* the rounds of the match that is over
Rounds == IF pc = "idle" THEN ret.roundHistory ELSE game.roundHistory

\* the places in the draw log of the draws made for the while condition
ContinuePositions ==
    SelectSeq([i \in 1..Len(drawLog) |-> i], LAMBDA i : drawLog[i].by = "continue")

\* who draws when the moves of round k are decided, in the order of the
\* decisions: Generous TFT after a defection of the other side in round k - 1
DecisionDraws(rh, k) ==
    (IF call.args[1] = "GTFT" /\ k > 1 /\ rh[k - 1].move2 = DEFECT
     THEN <<"strategy1">> ELSE <<>>)
    \o (IF call.args[2] = "GTFT" /\ k > 1 /\ rh[k - 1].move1 = DEFECT
        THEN <<"strategy2">> ELSE <<>>)

\* who made the draws logged after place a and before place b
LoggedBetween(a, b) == [i \in 1..(b - a - 1) |-> drawLog[a + i].by]

\* the k-th continuation draw comes after the decision draws of round k and
\* before those of round k + 1, and the last one ends the log
DrawsInOrder(rh, pos) ==
    /\ Len(pos) = Len(rh)
    /\ \A k \in 1..Len(rh) :
          LoggedBetween(IF k = 1 THEN 0 ELSE pos[k - 1], pos[k]) = DecisionDraws(rh, k)
    /\ pos[Len(rh)] = Len(drawLog)

\* C26: when an indefinite match is over, the draw log holds one continuation
\* draw per round played, the round at the ceiling of 10,000 included, each
\* after the decision draws of its round and before those of the next round;
\* a fixed match logs decision draws only.
C26_DrawPerRound ==
    /\ (Indefinite /\ pc \in {"played", "idle"}) =>
          /\ Len(Rounds) >= 1
          /\ DrawsInOrder(Rounds, ContinuePositions)
    /\ (FixedMode /\ pc \in {"played", "idle"}) =>
          /\ ContinuePositions = <<>>
          /\ Len(drawLog) <= 2 * Len(Rounds)

\* the match that reaches the ceiling: 10,000 continuation draws, the last
\* one after the decision draw of round 10,000
C26_Witness ==
    /\ Indefinite
    /\ pc = "played"
    /\ Len(game.roundHistory) = maxRounds
    /\ Len(ContinuePositions) = maxRounds
    /\ Len(drawLog) = 2 * maxRounds - 1
    /\ drawLog[Len(drawLog)].by = "continue"
    /\ drawLog[Len(drawLog) - 1].by = "strategy1"

====
